---- MODULE Spec2Model ----
(***************************************************************************)
(* A model of apps/api/src/charts/generate_charts.py: the script reads a   *)
(* JSON document from standard input, runs three chart builders over its   *)
(* picks and sites, and writes {images, meta} to standard output.          *)
(*                                                                         *)
(* Numbers are integers: costs are whole USD, benefit and Risk are in      *)
(* hundredths.  A rendered chart is represented by its descriptor's title. *)
(***************************************************************************)
EXTENDS Integers, Sequences, FiniteSets, TLC

VARIABLES
    stdin,          \* the text on standard input: [kind, doc]
    pc,             \* position of the single thread of control
    nx,             \* "networkx" or "None"            (lines 19-22)
    HAS_NX_MCP,     \* the networkx_mcp import probe   (lines 24-28)
    mcp_fail_at,    \* which networkx_mcp call raises (0: none)
    fault,          \* which plotting-library call raises ("none": none)
    picks, sites,   \* main's locals after read_input
    images,         \* main's list of descriptors
    ret,            \* what each builder gave back to main
    exc,            \* the exception each builder ended with ("none": none)
    open_figs,      \* pyplot's registry of figures not yet closed
    xscale,         \* the x-axis scale of the Benefit-vs-Cost axes
    scale_decided,  \* line 64 has been evaluated
    G,              \* the networkx graph of chart_optimization_graph
    graph_built,    \* the loop of lines 130-134 ran to its end
    drawn,          \* the two nodelists of lines 138-139
    mcp,            \* the graph held by the networkx_mcp server
    stdout,         \* the documents written to standard output
    escaped         \* the exception that left main ("none": none)

vars == <<stdin, pc, nx, HAS_NX_MCP, mcp_fail_at, fault, picks, sites, images,
          ret, exc, open_figs, xscale, scale_decided, G, graph_built, drawn,
          mcp, stdout, escaped>>

-----------------------------------------------------------------------------
(* Bounds of the model. *)

MaxPicks == 2
MaxSites == 2

-----------------------------------------------------------------------------
(* JSON values.  Every value has the same three fields, so that values of  *)
(* different JSON types can be compared.                                    *)
(*   absent: the key is not in the object;  numstr: a string holding the    *)
(*   decimal numeral of n;  str: any other string.                          *)

Absent == [t |-> "absent", n |-> 0, s |-> ""]
Null == [t |-> "null", n |-> 0, s |-> ""]
Num(i) == [t |-> "num", n |-> i, s |-> ""]
Str(x) == [t |-> "str", n |-> 0, s |-> x]
NumStr(i) == [t |-> "numstr", n |-> i, s |-> ""]
Bool(b) == [t |-> "bool", n |-> IF b THEN 1 ELSE 0, s |-> ""]

(* An element of the picks or sites array: a JSON object with the keys the  *)
(* builders read, or a non-object (null, a number).                         *)
Pick(id, cost, benefit) == [k |-> "obj", id |-> id, cost |-> cost, benefit |-> benefit]
NonObjPick(k) == [k |-> k, id |-> Absent, cost |-> Absent, benefit |-> Absent]
Site(risk) == [k |-> "obj", Risk |-> risk]
NonObjSite(k) == [k |-> k, Risk |-> Absent]

(* The value under the key "picks" or "sites": absent, null, a truthy       *)
(* number, or an array.                                                     *)
AbsentField == [k |-> "absent", items |-> <<>>]
NullField == [k |-> "null", items |-> <<>>]
NumField == [k |-> "num", items |-> <<>>]
ListField(items) == [k |-> "list", items |-> items]

(* A top-level JSON document. *)
Obj(p, s) == [t |-> "obj", picks |-> p, sites |-> s]
NonObj(t) == [t |-> t, picks |-> AbsentField, sites |-> AbsentField]
EmptyObj == Obj(AbsentField, AbsentField)

-----------------------------------------------------------------------------
(* Python's built-ins, as the script uses them. *)

\* dict.get(key, default)
Get(v, default) == IF v.t = "absent" THEN default ELSE v

\* float(v): a number or a numeral converts; any other string is a
\* ValueError, any other type a TypeError.
float(v) ==
    CASE v.t \in {"num", "numstr", "bool"} -> [ok |-> TRUE, v |-> v.n, exc |-> "none"]
      [] v.t = "str" -> [ok |-> FALSE, v |-> 0, exc |-> "ValueError"]
      [] OTHER -> [ok |-> FALSE, v |-> 0, exc |-> "TypeError"]

\* str(v)
str(v) ==
    CASE v.t = "str" -> v.s
      [] v.t \in {"num", "numstr"} -> ToString(v.n)
      [] v.t = "null" -> "None"
      [] v.t = "bool" -> IF v.n = 1 THEN "True" ELSE "False"
      [] OTHER -> "[]"

\* max(a, b) and min / max of a non-empty list
Max2(a, b) == IF b > a THEN b ELSE a
max(xs) == CHOOSE x \in {xs[i] : i \in DOMAIN xs} : \A j \in DOMAIN xs : xs[j] <= x
min(xs) == CHOOSE x \in {xs[i] : i \in DOMAIN xs} : \A j \in DOMAIN xs : x <= xs[j]

\* a / b: a quotient kept as a fraction, or ZeroDivisionError
Div(a, b) == [ok |-> b # 0, num |-> a, den |-> b]
\* q > k for a quotient q
Greater(q, k) == IF q.den > 0 THEN q.num > k * q.den ELSE q.num < k * q.den

\* `not x` for the value under "picks" / "sites"
Falsy(f) == f.k \in {"absent", "null"} \/ (f.k = "list" /\ f.items = <<>>)

\* `x or []`
OrEmptyList(f) == IF Falsy(f) THEN ListField(<<>>) ELSE f

-----------------------------------------------------------------------------
(* read_input, lines 31-39. *)

\* json.loads(raw): the parsed document, or an exception
json_loads(raw) == [ok |-> raw.kind = "json", v |-> raw.doc]

\* Mutant of parse_or_empty: the except clause yields None instead of {}.
parse_or_none(raw) ==
    IF raw.kind = "empty" THEN EmptyObj
    ELSE IF json_loads(raw).ok THEN json_loads(raw).v ELSE NonObj("null")

\* lines 33-36: `json.loads(raw) if raw else {}`, and {} on any exception
parse_or_empty(raw) ==
    IF raw.kind = "empty" THEN EmptyObj
    ELSE IF json_loads(raw).ok THEN json_loads(raw).v ELSE EmptyObj

\* lines 37-39: data.get exists on a dict only
read_input(raw) ==
    LET data == parse_or_empty(raw)
    IN  IF data.t # "obj"
        THEN [ok |-> FALSE, exc |-> "AttributeError",
              picks |-> ListField(<<>>), sites |-> ListField(<<>>)]
        ELSE [ok |-> TRUE, exc |-> "none",
              picks |-> OrEmptyList(data.picks), sites |-> OrEmptyList(data.sites)]

-----------------------------------------------------------------------------
(* Helpers of the builders. *)

Raise(e) == [ok |-> FALSE, vals |-> <<>>, exc |-> e]

\* [float(a.v) for a in args]; a.get on a non-object is an AttributeError
RECURSIVE floats(_)
floats(args) ==
    IF args = <<>> THEN [ok |-> TRUE, vals |-> <<>>, exc |-> "none"]
    ELSE LET a == Head(args)
             f == float(a.v)
             r == floats(Tail(args))
         IN  IF a.k # "obj" THEN Raise("AttributeError")
             ELSE IF ~f.ok THEN Raise(f.exc)
             ELSE IF ~r.ok THEN r
             ELSE [r EXCEPT !.vals = <<f.v>> \o r.vals]

\* line 56: xs = [max(1, float(p.get("cost", 0))) for p in picks]
cost_xs(items) ==
    LET r == floats([i \in DOMAIN items |->
                       [k |-> items[i].k, v |-> Get(items[i].cost, Num(0))]])
    IN  IF r.ok THEN [r EXCEPT !.vals = [i \in DOMAIN r.vals |-> Max2(1, r.vals[i])]]
        ELSE r

\* line 57: ys = [float(p.get("benefit", 0.0)) for p in picks]
benefit_ys(items) ==
    floats([i \in DOMAIN items |->
              [k |-> items[i].k, v |-> Get(items[i].benefit, Num(0))]])

LogRatio == 50

\* Mutant of set_xscale: `>= 50` instead of `> 50`.
set_xscale_ge(xs) ==
    LET q == Div(max(xs), Max2(1, min(xs)))
    IN  IF ~q.ok THEN [ok |-> FALSE, scale |-> "linear", exc |-> "ZeroDivisionError"]
        ELSE [ok |-> TRUE, exc |-> "none",
              scale |-> IF Greater(q, LogRatio - 1) THEN "log" ELSE "linear"]

\* line 64: log scale when max(xs) / max(1, min(xs)) > 50
set_xscale(xs) ==
    LET q == Div(max(xs), Max2(1, min(xs)))
    IN  IF ~q.ok THEN [ok |-> FALSE, scale |-> "linear", exc |-> "ZeroDivisionError"]
        ELSE [ok |-> TRUE, exc |-> "none",
              scale |-> IF Greater(q, LogRatio) THEN "log" ELSE "linear"]

\* lines 56-68 of chart_benefit_vs_cost, after the figure exists
benefit_vs_cost_plot(p, flt) ==
    LET xs == cost_xs(p.items)
        ys == benefit_ys(p.items)
        sc == set_xscale(xs.vals)
        fail(e) == [ok |-> FALSE, exc |-> e, decided |-> FALSE, scale |-> "linear"]
    IN  IF p.k # "list" THEN fail("TypeError")
        ELSE IF ~xs.ok THEN fail(xs.exc)
        ELSE IF ~ys.ok THEN fail(ys.exc)
        ELSE IF flt = "c1_plot" THEN fail("LibraryError")
        ELSE IF ~sc.ok THEN fail(sc.exc)
        ELSE [ok |-> TRUE, exc |-> "none", decided |-> TRUE, scale |-> sc.scale]

\* Mutant of risks_of: the comprehension without `if s is not None`.
risks_of_keep_null(s) ==
    IF s.k # "list" THEN Raise("TypeError")
    ELSE floats([i \in DOMAIN s.items |->
                   [k |-> s.items[i].k, v |-> Get(s.items[i].Risk, Num(0))]])

\* line 80: risks = [float(s.get("Risk", 0.0)) for s in sites if s is not None]
risks_of(s) ==
    LET kept == SelectSeq(s.items, LAMBDA e : e.k # "null")
    IN  IF s.k # "list" THEN Raise("TypeError")
        ELSE floats([i \in DOMAIN kept |->
                       [k |-> kept[i].k, v |-> Get(kept[i].Risk, Num(0))]])

\* fig_to_data_url, lines 42-49: tight_layout and savefig come before
\* plt.close, so an exception in either leaves the figure in the registry.
fig_to_data_url(figs, fig, raises) ==
    IF raises THEN [ok |-> FALSE, exc |-> "LibraryError", figs |-> figs]
    ELSE [ok |-> TRUE, exc |-> "none", figs |-> figs \ {fig}]

\* Mutant of main_collect: images.insert(0, c) instead of images.append(c).
main_collect_prepend(imgs, r, title) ==
    IF r = "desc" THEN <<[title |-> title]>> \o imgs ELSE imgs

\* lines 160-161, 167-168, 174-175: `if c: images.append(c)`
main_collect(imgs, r, title) ==
    IF r = "desc" THEN Append(imgs, [title |-> title]) ELSE imgs

-----------------------------------------------------------------------------
(* The networkx graph of chart_optimization_graph, lines 127-134.  A graph  *)
(* is a set of nodes and a set of weighted undirected edges; an edge's ends *)
(* are a set of one (self-loop) or two nodes.  Budget weights are in        *)
(* millionths, RiskReduction weights in hundredths.                         *)

Hubs == {"Budget", "RiskReduction"}
EmptyGraph == [nodes |-> {}, edges |-> {}]
add_node(g, n) == [g EXCEPT !.nodes = @ \cup {n}]
add_edge(g, u, v, w) ==
    [nodes |-> g.nodes \cup {u, v},
     edges |-> {e \in g.edges : e.ends # {u, v}} \cup {[ends |-> {u, v}, weight |-> w]}]

\* line 131: pid = str(p.get("id", "?"))
pick_id(p) == str(Get(p.id, Str("?")))

\* lines 130-134: the loop over picks; an exception keeps what was built
RECURSIVE add_picks(_, _)
add_picks(g, items) ==
    IF items = <<>> THEN [ok |-> TRUE, exc |-> "none", G |-> g]
    ELSE LET p == Head(items)
             pid == pick_id(p)
             g1 == add_node(g, pid)
             c == float(Get(p.cost, Num(1)))
             g2 == add_edge(g1, pid, "Budget", Max2(1000000, c.v))
             b == float(Get(p.benefit, Num(0)))
             g3 == add_edge(g2, pid, "RiskReduction", Max2(1, b.v))
         IN  IF p.k # "obj" THEN [ok |-> FALSE, exc |-> "AttributeError", G |-> g]
             ELSE IF ~c.ok THEN [ok |-> FALSE, exc |-> c.exc, G |-> g1]
             ELSE IF ~b.ok THEN [ok |-> FALSE, exc |-> b.exc, G |-> g2]
             ELSE add_picks(g3, Tail(items))

\* lines 127-134
build_graph(p) ==
    IF p.k # "list"
    THEN [ok |-> FALSE, exc |-> "TypeError",
          G |-> add_node(add_node(EmptyGraph, "Budget"), "RiskReduction")]
    ELSE add_picks(add_node(add_node(EmptyGraph, "Budget"), "RiskReduction"), p.items)

\* Mutant of nodelists: the strategy nodelist is every node of the graph.
nodelists_all(g) == [strategies |-> g.nodes, hubs |-> Hubs]

\* lines 138-139: the strategy nodelist and the hub nodelist
nodelists(g) == [strategies |-> {n \in g.nodes : n \notin Hubs}, hubs |-> Hubs]

-----------------------------------------------------------------------------
(* The mirror of the graph through networkx_mcp, lines 111-123.  The calls *)
(* are numbered in the order the script makes them: 1 create_graph,        *)
(* 2 add_nodes(hubs), 3 add_nodes(ids), 3+i add_edges for the i-th pick;   *)
(* call number fail_at raises.                                              *)

McpIdle == [created |-> FALSE, nodes |-> {}, edges |-> {}, calls |-> 0, exc |-> "none"]

RECURSIVE mcp_add_edges(_, _, _)
mcp_add_edges(m, items, fail_at) ==
    IF items = <<>> THEN m
    ELSE LET pid == pick_id(Head(items))
             call == m.calls + 1
         IN  IF call = fail_at THEN [m EXCEPT !.calls = call, !.exc = "McpError"]
             ELSE mcp_add_edges(
                    [m EXCEPT !.calls = call,
                              !.edges = @ \cup {{pid, "Budget"}, {pid, "RiskReduction"}}],
                    Tail(items), fail_at)

mcp_mirror(p, has_mcp, fail_at) ==
    LET m1 == [McpIdle EXCEPT !.calls = 1, !.created = TRUE]
        m2 == [m1 EXCEPT !.calls = 2, !.nodes = Hubs]
        ids == {pick_id(p.items[i]) : i \in DOMAIN p.items}
        m3 == [m2 EXCEPT !.calls = 3, !.nodes = @ \cup ids]
    IN  IF ~has_mcp THEN McpIdle
        ELSE IF fail_at = 1 THEN [McpIdle EXCEPT !.calls = 1, !.exc = "McpError"]
        ELSE IF fail_at = 2 THEN [m1 EXCEPT !.calls = 2, !.exc = "McpError"]
        ELSE IF p.k # "list" THEN [m2 EXCEPT !.exc = "TypeError"]
        ELSE IF \E i \in DOMAIN p.items : p.items[i].k # "obj"
             THEN [m2 EXCEPT !.exc = "AttributeError"]
        ELSE IF fail_at = 3 THEN [m2 EXCEPT !.calls = 3, !.exc = "McpError"]
        ELSE mcp_add_edges(m3, p.items, fail_at)

-----------------------------------------------------------------------------
(* The inputs the model draws from. *)

SeqsUpTo(S, n) == UNION {[1..k -> S] : k \in 0..n}
Fields(S, n) == {AbsentField, NullField, NumField}
                    \cup {ListField(q) : q \in SeqsUpTo(S, n)}

GoodPick == Pick(Str("A"), Num(100), Num(50))
GoodSite == Site(Num(10))

\* Few records, every environment.
MainPicks == {GoodPick, Pick(Absent, Str("abc"), Num(50))}
MainSites == {GoodSite, Site(Str("high"))}
MainDocs ==
    {Obj(p, s) : p \in Fields(MainPicks, MaxPicks), s \in Fields(MainSites, MaxSites)}
        \cup {NonObj(t) : t \in {"array", "null", "num", "str", "bool"}}
MainStdin ==
    {[kind |-> "empty", doc |-> EmptyObj]}
        \cup {[kind |-> "malformed", doc |-> d] :
                d \in {EmptyObj, Obj(ListField(<<GoodPick>>), ListField(<<GoodSite>>))}}
        \cup {[kind |-> "json", doc |-> d] : d \in MainDocs}

\* Many records, one environment.
RichPicks ==
    {Pick(Str("A"), Num(1), Num(50)),
     Pick(Str("B"), Num(50), Num(0)),
     Pick(Str("A"), Num(51), Num(-5)),
     Pick(Absent, Absent, Absent),
     Pick(Str("Budget"), Num(2), Num(10)),
     Pick(Str("RiskReduction"), Num(101), Num(10)),
     Pick(Num(7), Num(-3), Num(10)),
     Pick(Str("C"), NumStr(100), Bool(TRUE)),
     Pick(Null, Num(0), Null),
     NonObjPick("null")}
RichSites ==
    {GoodSite, Site(NumStr(90)), Site(Absent), Site(Str("high")), Site(Null),
     NonObjSite("null"), NonObjSite("num")}
RichStdin ==
    {[kind |-> "json", doc |-> Obj(ListField(p), ListField(s))] :
        p \in SeqsUpTo(RichPicks, MaxPicks), s \in {<<>>, <<GoodSite>>}}
        \cup {[kind |-> "json", doc |-> Obj(ListField(p), ListField(s))] :
                p \in {<<>>, <<GoodPick>>}, s \in SeqsUpTo(RichSites, MaxSites)}

Faults == {"none", "c1_plot", "c1_encode", "c2_plot", "c2_encode",
           "c3_layout", "c3_draw", "c3_encode"}
McpFailPoints == 0..(3 + MaxPicks)

Builders == {"c1", "c2", "c3"}
Title(c) ==
    CASE c = "c1" -> "Benefit vs Cost"
      [] c = "c2" -> "Risk Distribution"
      [] c = "c3" -> "Strategy Graph"

-----------------------------------------------------------------------------
(* The state after the module is imported and before main() runs. *)

Init ==
    /\ \/ /\ stdin \in MainStdin
          /\ nx \in {"networkx", "None"}
          /\ HAS_NX_MCP \in BOOLEAN
          /\ mcp_fail_at \in (IF HAS_NX_MCP THEN McpFailPoints ELSE {0})
          /\ fault \in Faults
       \/ /\ stdin \in RichStdin
          /\ nx = "networkx"
          /\ HAS_NX_MCP = FALSE
          /\ mcp_fail_at = 0
          /\ fault = "none"
    /\ pc = "read_input"
    /\ picks = ListField(<<>>)
    /\ sites = ListField(<<>>)
    /\ images = <<>>
    /\ ret = [c \in Builders |-> "pending"]
    /\ exc = [c \in Builders |-> "none"]
    /\ open_figs = {}
    /\ xscale = "linear"
    /\ scale_decided = FALSE
    /\ G = EmptyGraph
    /\ graph_built = FALSE
    /\ drawn = [strategies |-> {}, hubs |-> {}]
    /\ mcp = McpIdle
    /\ stdout = <<>>
    /\ escaped = "none"

env == <<stdin, nx, HAS_NX_MCP, mcp_fail_at, fault>>
c1_vars == <<xscale, scale_decided>>
c3_vars == <<G, graph_built, drawn, mcp>>

-----------------------------------------------------------------------------
(* main, lines 153-180, and the builders it calls. *)

\* line 154; an exception of read_input is outside every try block
main_read_input ==
    /\ pc = "read_input"
    /\ LET r == read_input(stdin)
       IN  /\ picks' = r.picks
           /\ sites' = r.sites
           /\ escaped' = r.exc
           /\ pc' = IF r.ok THEN "c1_begin" ELSE "crashed"
    /\ UNCHANGED <<env, images, ret, exc, open_figs, c1_vars, c3_vars, stdout>>

\* a builder hands r to main (lines 158-163, 165-170, 172-177)
Return(c, r, e, next) ==
    /\ ret' = [ret EXCEPT ![c] = r]
    /\ exc' = [exc EXCEPT ![c] = e]
    /\ images' = main_collect(images, r, Title(c))
    /\ pc' = next

\* lines 53-55
chart_benefit_vs_cost_begin ==
    /\ pc = "c1_begin"
    /\ IF Falsy(picks)
       THEN Return("c1", "none", "none", "c2_begin") /\ UNCHANGED open_figs
       ELSE /\ open_figs' = open_figs \cup {"c1"}
            /\ pc' = "c1_plot"
            /\ UNCHANGED <<images, ret, exc>>
    /\ UNCHANGED <<env, picks, sites, c1_vars, c3_vars, stdout, escaped>>

\* lines 56-68
chart_benefit_vs_cost_plot ==
    /\ pc = "c1_plot"
    /\ LET r == benefit_vs_cost_plot(picks, fault)
       IN  /\ xscale' = r.scale
           /\ scale_decided' = r.decided
           /\ IF r.ok
              THEN pc' = "c1_encode" /\ UNCHANGED <<images, ret, exc>>
              ELSE Return("c1", "raised", r.exc, "c2_begin")
    /\ UNCHANGED <<env, picks, sites, open_figs, c3_vars, stdout, escaped>>

\* lines 70-74
chart_benefit_vs_cost_encode ==
    /\ pc = "c1_encode"
    /\ LET r == fig_to_data_url(open_figs, "c1", fault = "c1_encode")
       IN  /\ open_figs' = r.figs
           /\ Return("c1", IF r.ok THEN "desc" ELSE "raised", r.exc, "c2_begin")
    /\ UNCHANGED <<env, picks, sites, c1_vars, c3_vars, stdout, escaped>>

\* lines 78-87
chart_risk_distribution_begin ==
    /\ pc = "c2_begin"
    /\ LET risks == risks_of(sites)
       IN  IF Falsy(sites)
           THEN Return("c2", "none", "none", "c3_begin") /\ UNCHANGED open_figs
           ELSE IF ~risks.ok
           THEN Return("c2", "raised", risks.exc, "c3_begin") /\ UNCHANGED open_figs
           ELSE IF risks.vals = <<>>
           THEN Return("c2", "none", "none", "c3_begin") /\ UNCHANGED open_figs
           ELSE /\ open_figs' = open_figs \cup {"c2"}
                /\ pc' = "c2_plot"
                /\ UNCHANGED <<images, ret, exc>>
    /\ UNCHANGED <<env, picks, sites, c1_vars, c3_vars, stdout, escaped>>

\* lines 88-93
chart_risk_distribution_plot ==
    /\ pc = "c2_plot"
    /\ IF fault = "c2_plot"
       THEN Return("c2", "raised", "LibraryError", "c3_begin")
       ELSE pc' = "c2_encode" /\ UNCHANGED <<images, ret, exc>>
    /\ UNCHANGED <<env, picks, sites, open_figs, c1_vars, c3_vars, stdout, escaped>>

\* lines 95-99
chart_risk_distribution_encode ==
    /\ pc = "c2_encode"
    /\ LET r == fig_to_data_url(open_figs, "c2", fault = "c2_encode")
       IN  /\ open_figs' = r.figs
           /\ Return("c2", IF r.ok THEN "desc" ELSE "raised", r.exc, "c3_begin")
    /\ UNCHANGED <<env, picks, sites, c1_vars, c3_vars, stdout, escaped>>

\* Mutant of chart_optimization_graph_begin: the guard tests sites, not picks.
chart_optimization_graph_begin_sites ==
    /\ pc = "c3_begin"
    /\ IF Falsy(sites) \/ nx = "None"
       THEN Return("c3", "none", "none", "write")
       ELSE pc' = "c3_mirror" /\ UNCHANGED <<images, ret, exc>>
    /\ UNCHANGED <<env, picks, sites, open_figs, c1_vars, c3_vars, stdout, escaped>>

\* lines 107-108
chart_optimization_graph_begin ==
    /\ pc = "c3_begin"
    /\ IF Falsy(picks) \/ nx = "None"
       THEN Return("c3", "none", "none", "write")
       ELSE pc' = "c3_mirror" /\ UNCHANGED <<images, ret, exc>>
    /\ UNCHANGED <<env, picks, sites, open_figs, c1_vars, c3_vars, stdout, escaped>>

\* Mutant of chart_optimization_graph_mirror: no try block around the calls,
\* so an exception of theirs reaches the try block of main.
chart_optimization_graph_mirror_unguarded ==
    /\ pc = "c3_mirror"
    /\ mcp' = mcp_mirror(picks, HAS_NX_MCP, mcp_fail_at)
    /\ IF mcp'.exc # "none"
       THEN Return("c3", "raised", mcp'.exc, "write")
       ELSE pc' = "c3_build" /\ UNCHANGED <<images, ret, exc>>
    /\ UNCHANGED <<env, picks, sites, open_figs, c1_vars,
                   G, graph_built, drawn, stdout, escaped>>

\* lines 111-123: whatever the calls do, the except clause swallows it
chart_optimization_graph_mirror ==
    /\ pc = "c3_mirror"
    /\ mcp' = mcp_mirror(picks, HAS_NX_MCP, mcp_fail_at)
    /\ pc' = "c3_build"
    /\ UNCHANGED <<env, picks, sites, images, ret, exc, open_figs, c1_vars,
                   G, graph_built, drawn, stdout, escaped>>

\* lines 126-134; the except clause of line 149 returns None
chart_optimization_graph_build ==
    /\ pc = "c3_build"
    /\ LET r == build_graph(picks)
       IN  /\ G' = r.G
           /\ graph_built' = r.ok
           /\ IF r.ok
              THEN pc' = "c3_layout" /\ UNCHANGED <<images, ret, exc>>
              ELSE Return("c3", "none", r.exc, "write")
    /\ UNCHANGED <<env, picks, sites, open_figs, c1_vars, drawn, mcp, stdout, escaped>>

\* lines 136-137: spring_layout, then the figure
chart_optimization_graph_layout ==
    /\ pc = "c3_layout"
    /\ IF fault = "c3_layout"
       THEN Return("c3", "none", "LibraryError", "write") /\ UNCHANGED open_figs
       ELSE /\ open_figs' = open_figs \cup {"c3"}
            /\ pc' = "c3_draw"
            /\ UNCHANGED <<images, ret, exc>>
    /\ UNCHANGED <<env, picks, sites, c1_vars, c3_vars, stdout, escaped>>

\* lines 138-143
chart_optimization_graph_draw ==
    /\ pc = "c3_draw"
    /\ drawn' = nodelists(G)
    /\ IF fault = "c3_draw"
       THEN Return("c3", "none", "LibraryError", "write")
       ELSE pc' = "c3_encode" /\ UNCHANGED <<images, ret, exc>>
    /\ UNCHANGED <<env, picks, sites, open_figs, c1_vars, G, graph_built, mcp,
                   stdout, escaped>>

\* lines 144-150
chart_optimization_graph_encode ==
    /\ pc = "c3_encode"
    /\ LET r == fig_to_data_url(open_figs, "c3", fault = "c3_encode")
       IN  /\ open_figs' = r.figs
           /\ Return("c3", IF r.ok THEN "desc" ELSE "none", r.exc, "write")
    /\ UNCHANGED <<env, picks, sites, c1_vars, c3_vars, stdout, escaped>>

\* lines 179-180
main_write ==
    /\ pc = "write"
    /\ stdout' = Append(stdout,
                   [images |-> images,
                    meta |-> [nx_mcp_used |-> HAS_NX_MCP, count |-> Len(images)]])
    /\ pc' = "done"
    /\ UNCHANGED <<env, picks, sites, images, ret, exc, open_figs, c1_vars,
                   c3_vars, escaped>>

Next ==
    \/ main_read_input
    \/ chart_benefit_vs_cost_begin
    \/ chart_benefit_vs_cost_plot
    \/ chart_benefit_vs_cost_encode
    \/ chart_risk_distribution_begin
    \/ chart_risk_distribution_plot
    \/ chart_risk_distribution_encode
    \/ chart_optimization_graph_begin
    \/ chart_optimization_graph_mirror
    \/ chart_optimization_graph_build
    \/ chart_optimization_graph_layout
    \/ chart_optimization_graph_draw
    \/ chart_optimization_graph_encode
    \/ main_write

Spec == Init /\ [][Next]_vars

-----------------------------------------------------------------------------
(* Vocabulary of the properties. *)

ImageTitles == [i \in DOMAIN images |-> images[i].title]
Order == <<"c1", "c2", "c3">>
TitlesOf(P(_)) == LET kept == SelectSeq(Order, P) IN [i \in DOMAIN kept |-> Title(kept[i])]
NoLibraryError == \A c \in Builders : exc[c] # "LibraryError"

\* float() accepts the value: a number, a boolean, a numeral in a string
Convertible(v) == v.t \in {"num", "numstr", "bool"}
IsList(f) == f.k = "list"
NonNull(f) == {i \in DOMAIN f.items : f.items[i].k # "null"}
AllObjects(f) == IsList(f) /\ f.items # <<>> /\ \A i \in DOMAIN f.items : f.items[i].k = "obj"

\* every pick is an object whose cost and benefit are missing or convertible
PicksUsable ==
    /\ AllObjects(picks)
    /\ \A i \in DOMAIN picks.items :
          /\ picks.items[i].cost.t = "absent" \/ Convertible(picks.items[i].cost)
          /\ picks.items[i].benefit.t = "absent" \/ Convertible(picks.items[i].benefit)
\* some entry is not null, and each of those is an object whose Risk is
\* missing or convertible
SitesUsable ==
    /\ IsList(sites)
    /\ NonNull(sites) # {}
    /\ \A i \in NonNull(sites) :
          /\ sites.items[i].k = "obj"
          /\ sites.items[i].Risk.t = "absent" \/ Convertible(sites.items[i].Risk)

-----------------------------------------------------------------------------
(* C1: for every content of standard input, no exception escapes          *)
(* read_input or main, and exactly one document is written.               *)
C1_NoInputEscapes ==
    /\ escaped = "none"
    /\ pc # "crashed"
    /\ pc = "done" => Len(stdout) = 1

-----------------------------------------------------------------------------
(* C2: a numeric field that is missing or not a number counts as 0, so a  *)
(* non-empty list of pick objects always yields the Benefit-vs-Cost chart  *)
(* and a non-empty list of site objects always yields the Risk            *)
(* Distribution chart.  Stated over the runs in which no plotting-library *)
(* call raises, where only the records' fields can stop a chart.          *)
C2_InvalidFieldsCountAsZero ==
    (pc = "done" /\ fault = "none") =>
        /\ AllObjects(picks) => \E i \in DOMAIN images : images[i].title = Title("c1")
        /\ AllObjects(sites) => \E i \in DOMAIN images : images[i].title = Title("c2")

-----------------------------------------------------------------------------
(* C3: images is, in call order, exactly the charts of the builders that  *)
(* returned a descriptor; a builder that returns nothing or raises removes *)
(* only its own chart; meta.count is the length of images.                 *)
C3_ImagesAreTheReturnedDescriptors ==
    /\ ImageTitles = TitlesOf(LAMBDA c : ret[c] = "desc")
    /\ pc = "done" =>
          /\ stdout[1].images = images
          /\ stdout[1].meta.count = Len(images)

C3_Witness ==
    /\ pc = "done"
    /\ ret["c1"] = "raised" /\ ret["c2"] = "desc" /\ ret["c3"] = "desc"
    /\ ImageTitles = <<Title("c2"), Title("c3")>>

-----------------------------------------------------------------------------
(* C4: on every path of main() at most one figure is open at any moment   *)
(* and none is left open when main() finishes.  Stated over the runs in   *)
(* which no plotting-library call raises: a builder that raises on its    *)
(* own records after creating its figure is enough.                        *)
C4_OneFigureAtATime ==
    fault = "none" =>
        /\ Cardinality(open_figs) <= 1
        /\ pc = "done" => open_figs = {}

-----------------------------------------------------------------------------
\* a pick as the data model gives it: {id: string, cost: number, benefit: number}
WellFormedPick(p) ==
    p.k = "obj" /\ p.id.t = "str" /\ p.cost.t = "num" /\ p.benefit.t = "num"
\* a non-empty list of well-formed picks and no sites
PicksOnly ==
    /\ IsList(picks) /\ picks.items # <<>>
    /\ \A i \in DOMAIN picks.items : WellFormedPick(picks.items[i])
    /\ Falsy(sites)

(* C5 as claimed: well-formed picks and no sites give exactly the         *)
(* Benefit-vs-Cost chart followed by the Strategy Graph chart, count 2.   *)
C5_Original ==
    (pc = "done" /\ PicksOnly /\ fault = "none") =>
        /\ ImageTitles = <<Title("c1"), Title("c3")>>
        /\ stdout[1].meta.count = 2

(* C5 amended: well-formed picks and no sites give exactly the           *)
(* Benefit-vs-Cost chart followed by the Strategy Graph chart, count 2,   *)
(* provided networkx was importable and no plotting-library call raised;  *)
(* without networkx the Benefit-vs-Cost chart is the only image, count 1. *)
C5_TwoImagesWithNetworkx ==
    (pc = "done" /\ PicksOnly /\ NoLibraryError) =>
        /\ nx = "networkx" =>
              /\ ImageTitles = <<Title("c1"), Title("c3")>>
              /\ stdout[1].meta.count = 2
        /\ nx = "None" =>
              /\ ImageTitles = <<Title("c1")>>
              /\ stdout[1].meta.count = 1

C5_Witness ==
    /\ pc = "done" /\ PicksOnly /\ nx = "networkx"
    /\ stdout[1].meta.count = 2
    /\ ImageTitles = <<Title("c1"), Title("c3")>>

-----------------------------------------------------------------------------
\* Whether builder c produces its chart, from the records, the presence of
\* networkx and the plotting calls; networkx_mcp is not mentioned.
ExpectChart(c) ==
    CASE c = "c1" -> PicksUsable /\ fault \notin {"c1_plot", "c1_encode"}
      [] c = "c2" -> SitesUsable /\ fault \notin {"c2_plot", "c2_encode"}
      [] c = "c3" -> /\ PicksUsable /\ nx = "networkx"
                     /\ fault \notin {"c3_layout", "c3_draw", "c3_encode"}

(* C6: the images and the count are fixed by picks, sites, the presence   *)
(* of networkx and the plotting calls alone: whether networkx_mcp is       *)
(* absent, succeeds, or raises at any call changes neither, and            *)
(* meta.nx_mcp_used is the import probe whatever the calls did.            *)
C6_MirrorNeverChangesOutput ==
    pc = "done" =>
        /\ ImageTitles = TitlesOf(ExpectChart)
        /\ stdout[1].images = images
        /\ stdout[1].meta.count = Len(TitlesOf(ExpectChart))
        /\ stdout[1].meta.nx_mcp_used = HAS_NX_MCP

C6_Witness ==
    /\ pc = "done" /\ HAS_NX_MCP /\ mcp.exc = "McpError"
    /\ stdout[1].meta.nx_mcp_used
    /\ \E i \in DOMAIN images : images[i].title = Title("c3")

-----------------------------------------------------------------------------
\* some element of sites carries a Risk that float() accepts
HasNumericRisk ==
    /\ IsList(sites)
    /\ \E i \in DOMAIN sites.items :
          sites.items[i].k = "obj" /\ Convertible(sites.items[i].Risk)
\* the positions of the Risk Distribution chart in images
RiskImages == {i \in DOMAIN images : images[i].title = Title("c2")}
\* no entry of sites is a non-object or carries a Risk float() rejects
NoInvalidRisk ==
    /\ IsList(sites)
    /\ \A i \in NonNull(sites) :
          /\ sites.items[i].k = "obj"
          /\ sites.items[i].Risk.t = "absent" \/ Convertible(sites.items[i].Risk)

-----------------------------------------------------------------------------
\* standard input is empty, does not parse, or is the document {}
ReadsAsEmptyObject ==
    \/ stdin.kind \in {"empty", "malformed"}
    \/ stdin.kind = "json" /\ stdin.doc = EmptyObj

(* C8: empty standard input and text that does not parse give the output  *)
(* of the input {}: no exception, no builder produces a chart, images is  *)
(* empty and meta.count is 0.                                             *)
C8_UnparseableInputIsEmptyObject ==
    ReadsAsEmptyObject =>
        /\ escaped = "none" /\ pc # "crashed"
        /\ images = <<>> /\ open_figs = {}
        /\ \A c \in Builders : ret[c] \in {"pending", "none"}
        /\ pc = "done" =>
              stdout = <<[images |-> <<>>,
                          meta |-> [nx_mcp_used |-> HAS_NX_MCP, count |-> 0]]>>

C8_Witness ==
    /\ pc = "done" /\ stdin.kind = "malformed" /\ stdin.doc # EmptyObj
    /\ stdout[1].images = <<>> /\ stdout[1].meta.count = 0

-----------------------------------------------------------------------------
\* a pick's cost (0 when missing), and the cost floored at 1
CostOf(p) == IF p.cost.t = "absent" THEN 0 ELSE p.cost.n
FlooredCost(p) == IF CostOf(p) < 1 THEN 1 ELSE CostOf(p)

(* C9: once chart_benefit_vs_cost decides the x scale, it is logarithmic  *)
(* exactly when some pick's cost, floored at 1, exceeds 50 times another  *)
(* pick's cost, floored at 1; the decision is reached for all picks with  *)
(* numeric fields and never divides by zero, zero and negative costs      *)
(* included.                                                              *)
C9_LogScaleRule ==
    /\ exc["c1"] # "ZeroDivisionError"
    /\ ~scale_decided => xscale = "linear"
    /\ scale_decided =>
          (xscale = "log" <=>
              \E i, j \in DOMAIN picks.items :
                  FlooredCost(picks.items[i]) > LogRatio * FlooredCost(picks.items[j]))
    /\ (PicksUsable /\ ret["c1"] # "pending" /\ exc["c1"] # "LibraryError")
          => scale_decided

C9_Witness ==
    /\ scale_decided /\ xscale = "log" /\ ret["c1"] = "desc"
    /\ \E i \in DOMAIN picks.items : CostOf(picks.items[i]) <= 0

-----------------------------------------------------------------------------
\* the ids of the picks as strings, and the end sets of the graph's edges
IdOf(p) == IF p.id.t = "absent" THEN "?" ELSE str(p.id)
Ids == {IdOf(picks.items[i]) : i \in DOMAIN picks.items}
Ends == {e.ends : e \in G.edges}
GraphDrawn == graph_built /\ drawn.hubs # {}

(* C10 as claimed: the graph has the two hubs plus one strategy node per  *)
(* pick, each pick has an edge to each hub, there is no other edge, and   *)
(* every pick is drawn as a strategy node, whatever the ids.  Stated over *)
(* the runs in which no plotting-library call raises.                     *)
C10_Original ==
    (GraphDrawn /\ fault = "none") =>
        /\ G.nodes = Hubs \cup Ids
        /\ Cardinality(G.nodes) = 2 + Len(picks.items)
        /\ \A id \in Ids : \A h \in Hubs : {id, h} \in Ends
        /\ Cardinality(G.edges) = 2 * Len(picks.items)
        /\ \A e \in Ends : Cardinality(e) = 2 /\ e # Hubs
        /\ Ids \subseteq drawn.strategies

(* C10 amended: the graph has the two hubs plus one strategy node per     *)
(* distinct id (the string of the id, "?" when missing), so picks with    *)
(* the same id share a node; its edges are exactly one from every id to   *)
(* each hub; the strategy nodelist is the ids that are not hub names.     *)
(* When no id is a hub name there is no hub-to-hub edge and no self-loop  *)
(* and every pick is drawn as a strategy node; an id that is a hub name   *)
(* is the hub itself and is drawn as a hub.                               *)
C10_OneNodePerDistinctId ==
    /\ (PicksUsable /\ nx = "networkx" /\ ret["c3"] # "pending") => graph_built
    /\ graph_built =>
           /\ G.nodes = Hubs \cup Ids
           /\ Ends = {{id, h} : id \in Ids, h \in Hubs}
           /\ Cardinality(G.edges) = Cardinality(Ends)
           /\ GraphDrawn => drawn.strategies = Ids \ Hubs /\ drawn.hubs = Hubs
           /\ Ids \cap Hubs = {} =>
                 /\ Cardinality(G.nodes) = 2 + Cardinality(Ids)
                 /\ Cardinality(G.edges) = 2 * Cardinality(Ids)
                 /\ \A e \in Ends : Cardinality(e) = 2 /\ e # Hubs

C10_Witness ==
    /\ GraphDrawn /\ ret["c3"] = "desc"
    /\ Len(picks.items) = 2 /\ Cardinality(Ids) = 1
    /\ Cardinality(G.nodes) = 3 /\ Cardinality(G.edges) = 2

=============================================================================
